---- MODULE Spec2Model ----
(***************************************************************************)
(* DockView (src/dockview.py): a Textual application whose event loop      *)
(* refreshes a DataTable from `docker ps -a` and whose worker threads run  *)
(* docker lifecycle commands.                                              *)
(*                                                                         *)
(* The event loop is one process.  load_containers blocks it inside        *)
(* subprocess.run, so a refresh is two steps of the loop: the part up to   *)
(* the external call (remember the selection, table.clear()) and the part  *)
(* after it returns (rebuild, restore the cursor, status bar).  Worker     *)
(* threads (@work(thread=True)) and the process manager itself take steps  *)
(* in between.  Rows and cursor indexes are 0-based as in the code; the    *)
(* sequence `rows` is 1-based, so row i is rows[i + 1].                    *)
(*                                                                         *)
(* An exception that escapes a handler or a worker ends the application    *)
(* (Textual's default), which is the state `crashed`.  Not modelled:       *)
(* action_logs, quit, and the texts notified by action_toggle_filter and   *)
(* action_refresh.  The Port column is left out of the rows;               *)
(* parse_host_ports, the status test and the grouping are also stepped by  *)
(* themselves over many inputs (StatusSpec, PortsSpec, GroupSpec) in the   *)
(* variable `call`, which the application leaves alone.                    *)
(***************************************************************************)
EXTENDS Integers, Sequences, FiniteSets, TLC

\* ---------------------------------------------------------------- bounds
MaxEvents == 3       \* key events plus changes of the process manager by others

\* The worker threads the action keys can start.
Workers == {1}

\* ------------------------------------------------------------ text values
\* Texts the code inspects by substring are sequences of characters.
UpText == <<"U", "p", " ", "2", "h">>
ExitedText == <<"E", "x", "i", "t", "e", "d", " ", "(", "0", ")">>
CreatedText == <<"C", "r", "e", "a", "t", "e", "d">>

\* s[i..] starts with sub
PrefixAt(sub, s, i) ==
    /\ i + Len(sub) - 1 <= Len(s)
    /\ \A k \in 1..Len(sub) : s[i + k - 1] = sub[k]

\* Python's `sub in s`
Contains(sub, s) == \E i \in 1..(Len(s) + 1) : PrefixAt(sub, s, i)

\* Code points of the project keys, for Python's string ordering.
Chars(s) ==
    CASE s = "(standalone)" -> <<40, 115, 116, 97, 110, 100, 97, 108, 111, 110, 101, 41>>
      [] s = "app" -> <<97, 112, 112>>
      [] s = "api" -> <<97, 112, 105>>
      [] OTHER -> <<>>

\* Python's str.__lt__ on code points
RECURSIVE SeqLess(_, _)
SeqLess(a, b) ==
    IF b = <<>> THEN FALSE
    ELSE IF a = <<>> THEN TRUE
    ELSE IF Head(a) # Head(b) THEN Head(a) < Head(b)
    ELSE SeqLess(Tail(a), Tail(b))

StrLess(s, t) == SeqLess(Chars(s), Chars(t))

\* sorted(keys, reverse=True)
RECURSIVE SortedDescending(_)
SortedDescending(S) ==
    IF S = {} THEN <<>>
    ELSE LET m == CHOOSE x \in S : \A y \in S \ {x} : StrLess(y, x)
         IN <<m>> \o SortedDescending(S \ {m})

\* sorted(keys): the keys in ascending string order
RECURSIVE Sorted(_)
Sorted(S) ==
    IF S = {} THEN <<>>
    ELSE LET m == CHOOSE x \in S : \A y \in S \ {x} : StrLess(x, y)
         IN <<m>> \o Sorted(S \ {m})

\* ----------------------------------------------------- the process manager
ProjectLabel == "com.docker.compose.project"

\* A label `k=v` of the comma-separated Labels text.
Label(k, v) == [k |-> k, v |-> v]

\* The containers that may exist, with the labels they are created with.
Names == {"web", "job", "db"}

LabelsOf(n) ==
    CASE n = "web" -> <<Label("com.docker.compose.service", "web"), Label(ProjectLabel, "app")>>
      [] n = "db" -> <<Label(ProjectLabel, "app"), Label(ProjectLabel, "api")>>
      [] OTHER -> <<>>

Record(n, st) == [Names |-> n, Status |-> st, Labels |-> LabelsOf(n)]

\* One line of `docker ps -a --format {{json .}}`: a JSON object, or text
\* that is no JSON.
JsonLine(c) == [json |-> TRUE, value |-> c]
BadLine == [json |-> FALSE, value |-> "garbage"]

RECURSIVE JsonLines(_)
JsonLines(cs) ==
    IF cs = <<>> THEN <<>> ELSE <<JsonLine(Head(cs))>> \o JsonLines(Tail(cs))

InsertAt(s, i, x) == SubSeq(s, 1, i - 1) \o <<x>> \o SubSeq(s, i, Len(s))

\* What subprocess.run(["docker", "ps", "-a", ...]) can give for the
\* containers cs: the listing; nothing on stdout (docker exits non-zero,
\* the daemon is unreachable); a listing with a line that is no JSON; or an
\* exception because docker cannot be executed.
PsOutputs(cs) ==
    {[raised |-> FALSE, stdout |-> JsonLines(cs)],
     [raised |-> FALSE, stdout |-> <<>>],
     [raised |-> TRUE, stdout |-> <<>>]}
    \cup {[raised |-> FALSE, stdout |-> InsertAt(JsonLines(cs), i, BadLine)] :
            i \in 1..(Len(cs) + 1)}

\* No list call has failed.
NoOutput == [raised |-> FALSE, stdout |-> <<>>]

\* ---------------------------------------------------------- get_containers
\* proj_name of one record: the value of the first project label, or
\* "(standalone)" when there is none or it is empty.
RECURSIVE FirstProject(_)
FirstProject(labels) ==
    IF labels = <<>> THEN ""
    ELSE IF Head(labels).k = ProjectLabel THEN Head(labels).v
    ELSE FirstProject(Tail(labels))

ProjName(c) ==
    LET p == FirstProject(c.Labels) IN IF p = "" THEN "(standalone)" ELSE p

\* json.loads over the lines: the records in order, or the exception of the
\* first line that is no JSON.
RECURSIVE ParseLines(_)
ParseLines(lines) ==
    IF lines = <<>> THEN [raised |-> FALSE, containers |-> <<>>]
    ELSE IF ~Head(lines).json THEN [raised |-> TRUE, containers |-> <<>>]
    ELSE LET rest == ParseLines(Tail(lines))
         IN IF rest.raised THEN rest
            ELSE [raised |-> FALSE, containers |-> <<Head(lines).value>> \o rest.containers]

\* SelectSeqBy with grouped[proj_name].insert(0, c)
RECURSIVE SelectSeqByReversed(_, _)
SelectSeqByReversed(cs, p) ==
    IF cs = <<>> THEN <<>>
    ELSE SelectSeqByReversed(Tail(cs), p)
             \o (IF ProjName(Head(cs)) = p THEN <<Head(cs)>> ELSE <<>>)

RECURSIVE SelectSeqBy(_, _)
SelectSeqBy(cs, p) ==
    IF cs = <<>> THEN <<>>
    ELSE (IF ProjName(Head(cs)) = p THEN <<Head(cs)>> ELSE <<>>) \o SelectSeqBy(Tail(cs), p)

\* grouped[proj_name].append(c) over the records in order
Grouped(cs) ==
    [p \in {ProjName(cs[i]) : i \in 1..Len(cs)} |-> SelectSeqBy(cs, p)]

\* get_containers() on one output of the list call: the grouped records, or
\* the exception that escapes it.
GetContainers(out) ==
    IF out.raised THEN [raised |-> TRUE, grouped |-> <<>>, containers |-> <<>>]
    ELSE LET parsed == ParseLines(out.stdout)
         IN IF parsed.raised THEN [raised |-> TRUE, grouped |-> <<>>, containers |-> <<>>]
            ELSE [raised |-> FALSE, grouped |-> Grouped(parsed.containers),
                  containers |-> parsed.containers]

\* ------------------------------------------------- load_containers, the loop
IsRunning(status) == Contains(<<"U", "p">>, status)

\* StatusDisplay with the test for "Exited" made first.
StatusDisplayExitedFirst(status) ==
    IF Contains(<<"E", "x", "i", "t", "e", "d">>, status)
    THEN <<"[red]", status, "[/red]">>
    ELSE IF IsRunning(status) THEN <<"[green]", status, "[/green]">>
         ELSE <<"[yellow]", status, "[/yellow]">>

StatusDisplay(status) ==
    IF IsRunning(status) THEN <<"[green]", status, "[/green]">>
    ELSE IF Contains(<<"E", "x", "i", "t", "e", "d">>, status)
         THEN <<"[red]", status, "[/red]">>
         ELSE <<"[yellow]", status, "[/yellow]">>

ProjectCell(project) == <<"[bold cyan]", project, "[/bold cyan]">>

\* The (project, container) pairs in the order the two nested loops visit them.
RECURSIVE LoopOrder(_, _)
LoopOrder(projects, grouped) ==
    IF projects = <<>> THEN <<>>
    ELSE LET p == Head(projects)
         IN [i \in 1..Len(grouped[p]) |-> [project |-> p, c |-> grouped[p][i]]]
            \o LoopOrder(Tail(projects), grouped)

EmptyBuild == [total |-> 0, running |-> 0, rows |-> <<>>, row_names |-> <<>>]

\* BuildStep with `running` counting every row that is shown.
BuildStepCountsShown(acc, project, c, show_all) ==
    LET is_running == IsRunning(c.Status)
    IN IF ~show_all /\ ~is_running
       THEN [acc EXCEPT !.total = acc.total + 1]
       ELSE [total |-> acc.total + 1,
             running |-> acc.running + 1,
             rows |-> Append(acc.rows, [key |-> c.Names,
                                        cells |-> <<ProjectCell(project), c.Names,
                                                    StatusDisplay(c.Status)>>]),
             row_names |-> Append(acc.row_names, c.Names)]

\* BuildStep with `total` not counting the rows the filter hides.
BuildStepTotalShown(acc, project, c, show_all) ==
    LET is_running == IsRunning(c.Status)
        running == IF is_running THEN acc.running + 1 ELSE acc.running
    IN IF ~show_all /\ ~is_running
       THEN [acc EXCEPT !.running = running]
       ELSE [total |-> acc.total + 1,
             running |-> running,
             rows |-> Append(acc.rows, [key |-> c.Names,
                                        cells |-> <<ProjectCell(project), c.Names,
                                                    StatusDisplay(c.Status)>>]),
             row_names |-> Append(acc.row_names, c.Names)]

\* One pass of the loop body for container c of `project`.
BuildStep(acc, project, c, show_all) ==
    LET is_running == IsRunning(c.Status)
        running == IF is_running THEN acc.running + 1 ELSE acc.running
    IN IF ~show_all /\ ~is_running
       THEN [acc EXCEPT !.running = running, !.total = acc.total + 1]
       ELSE [total |-> acc.total + 1,
             running |-> running,
             rows |-> Append(acc.rows, [key |-> c.Names,
                                        cells |-> <<ProjectCell(project), c.Names,
                                                    StatusDisplay(c.Status)>>]),
             row_names |-> Append(acc.row_names, c.Names)]

RECURSIVE BuildLoop(_, _, _)
BuildLoop(items, show_all, acc) ==
    IF items = <<>> THEN acc
    ELSE BuildLoop(Tail(items), show_all,
                   BuildStep(acc, Head(items).project, Head(items).c, show_all))

\* for project in sorted(grouped.keys()): for c in grouped[project]: ...
Build(grouped, show_all) ==
    BuildLoop(LoopOrder(Sorted(DOMAIN grouped), grouped), show_all, EmptyBuild)

None == "None"
NoIdx == -1          \* restore_idx = None

\* row_names.index(x), 0-based
IndexOf(row_names, x) ==
    (CHOOSE i \in 1..Len(row_names) :
        row_names[i] = x /\ \A j \in 1..(i - 1) : row_names[j] # x) - 1

InSeq(x, s) == \E i \in 1..Len(s) : s[i] = x

\* RestoreIdx with the position tried before the name.
RestoreIdxPositionFirst(selected_key, prev_row_idx, row_names, total) ==
    IF prev_row_idx < total THEN prev_row_idx
    ELSE IF selected_key # None /\ InSeq(selected_key, row_names)
         THEN IndexOf(row_names, selected_key)
         ELSE NoIdx

\* RestoreIdx without the fallback to the position.
RestoreIdxNameOnly(selected_key, prev_row_idx, row_names, total) ==
    IF selected_key # None /\ InSeq(selected_key, row_names)
    THEN IndexOf(row_names, selected_key)
    ELSE NoIdx

\* The "Restore cursor position" block: the value of restore_idx.
RestoreIdx(selected_key, prev_row_idx, row_names, total) ==
    LET byName == IF selected_key # None /\ InSeq(selected_key, row_names)
                  THEN IndexOf(row_names, selected_key)
                  ELSE NoIdx
    IN IF byName = NoIdx /\ prev_row_idx < total THEN prev_row_idx ELSE byName

\* DataTable.move_cursor(row=r): the cursor row is clamped to the rows there
\* are, and is 0 in an empty table.
MoveCursor(r, row_count) ==
    IF r < 0 \/ row_count = 0 THEN 0
    ELSE IF r > row_count - 1 THEN row_count - 1
    ELSE r

\* table.coordinate_to_cell_key(table.cursor_coordinate)[0].value, or None
\* when the coordinate is no cell of the table (the exception is swallowed).
RowKeyAt(rs, cur) == IF cur < Len(rs) THEN rs[cur + 1].key ELSE None

\* get_selected_container()
GetSelectedContainer(rs, cur) == RowKeyAt(rs, cur)

\* re.sub(r"\[.*?\]", "", cell): the cell without its markup tags
StripMarkup(cell) == cell[2]

\* get_selected_project(): the project cell of the cursor row without its
\* markup, or None when there is no such row.
GetSelectedProject(rs, cur) ==
    IF cur < Len(rs) THEN StripMarkup(rs[cur + 1].cells[1]) ELSE None

\* Python truthiness of a str | None
Truthy(x) == x # None /\ x # ""

RECURSIVE NamesOf(_)
NamesOf(cs) == IF cs = <<>> THEN <<>> ELSE <<Head(cs).Names>> \o NamesOf(Tail(cs))

\* get_containers_for_project(project) on the grouped records
ContainersForProject(grouped, project) ==
    IF project \in DOMAIN grouped THEN NamesOf(grouped[project]) ELSE <<>>

\* ------------------------------------------------------ docker_cmd's effect
Verbs == {"restart", "start", "stop"}

StatusAfter(action) == IF action = "stop" THEN ExitedText ELSE UpText

Exists(cs, n) == \E i \in 1..Len(cs) : cs[i].Names = n

\* `docker <action> <name>` exiting with `exit`: 0 needs the container to
\* exist and leaves it in the state the verb asks for; a failed command
\* leaves the containers as they were.
DockerRun(cs, action, n, exit) ==
    IF exit = 0
    THEN [i \in 1..Len(cs) |->
            IF cs[i].Names = n THEN [cs[i] EXCEPT !.Status = StatusAfter(action)] ELSE cs[i]]
    ELSE cs

ExitCodes(cs, n) == IF Exists(cs, n) THEN {0, 1} ELSE {1}

\* ------------------------------------------------------------ notifications
Gerund(verb) ==
    CASE verb = "restart" -> "Restarting" [] verb = "start" -> "Starting" [] OTHER -> "Stopping"

Past(verb) ==
    CASE verb = "restart" -> "restarted" [] verb = "start" -> "started" [] OTHER -> "stopped"

\* self.notify(f"Restarting {name}...")
NoteBegin(verb, n) == [text |-> <<Gerund(verb), " ", n, "...">>, severity |-> "information"]

\* self.notify(f"{name} restarted", severity="information")
NoteDone(verb, n) == [text |-> <<n, " ", Past(verb)>>, severity |-> "information"]

\* self.notify(f"Restarting all {len(containers)} containers in {project}...")
NoteBulkBegin(verb, project, containers) ==
    [text |-> <<Gerund(verb), " all ", Len(containers), " containers in ", project, "...">>,
     severity |-> "information"]

\* self.notify(f"{project} restarted ({len(containers)} containers)", severity="information")
NoteBulkDone(verb, project, containers) ==
    [text |-> <<project, " ", Past(verb), " (", Len(containers), " containers)">>,
     severity |-> "information"]

FilterLabel(show_all) == IF show_all THEN "all" ELSE "running only"

\* ------------------------------------------------------------------- state
VARIABLES
    world,        \* the process manager's containers, in `docker ps -a` order
    rows,         \* the DataTable's rows
    cursor,       \* table.cursor_coordinate.row
    status_bar,   \* what status_bar.update() last set
    show_all,     \* self._show_all
    last_key,     \* self._last_key
    mounted,      \* on_mount has run
    crashed,      \* an exception escaped a handler or a worker: the app is gone
    loop,         \* the event loop: idle, or blocked inside load_containers
    restore_idx,  \* restore_idx of the last completed load_containers
    snapshot,     \* the records the last completed load_containers fetched
    workers,      \* the worker threads
    events,       \* how many key events and outside changes there were
    call          \* one call of a function of the module taken by itself

vars == <<world, rows, cursor, status_bar, show_all, last_key, mounted,
          crashed, loop, restore_idx, snapshot, workers, events, call>>

table == <<rows, cursor>>

\* The loop's position, and the locals of the load_containers call it is in
\* or was last in (selected_key, prev_row_idx), who called it, the rows the
\* call cleared, the output of the list call get_containers raised on, and
\* the number of load_containers calls that have begun and not returned.
Idle == [pc |-> "idle", origin |-> <<None, 0>>, selected_key |-> None, prev_row_idx |-> 0,
         before |-> <<>>, out |-> NoOutput, active |-> 0]

\* A thread not started yet.  failed, finished, refreshes and at_key record
\* what the code does not keep: the commands that exited non-zero, the
\* commands that returned, the load_containers calls run for this thread, and
\* the key of the row the cursor was on when the key event of a single-target
\* action was handled.
NoWorker == [pc |-> "none", kind |-> None, verb |-> None, name |-> None,
             at_key |-> None,
             project |-> None, containers |-> <<>>, inflight |-> {},
             failed |-> {}, finished |-> {}, notes |-> <<>>, refreshes |-> 0]

InitWorld == <<Record("web", UpText), Record("job", ExitedText)>>

\* No function is being looked at by itself.
NoCall == [fn |-> None]

\* The application after construction, before on_mount.
AppInit ==
    /\ world = InitWorld
    /\ rows = <<>>
    /\ cursor = 0
    /\ status_bar = [running |-> 0, total |-> 0, filter |-> ""]
    /\ show_all = TRUE
    /\ last_key = ""
    /\ mounted = FALSE
    /\ crashed = FALSE
    /\ loop = Idle
    /\ restore_idx = NoIdx
    /\ snapshot = <<>>
    /\ workers = [w \in Workers |-> NoWorker]
    /\ events = 0

Init == AppInit /\ call = NoCall

\* ------------------------------------------------- load_containers, part one
\* Lines 117-129: remember the selection, then table.clear(); the loop then
\* blocks in get_containers().
LoadBegin(origin) ==
    /\ loop' = [pc |-> "fetch", origin |-> origin,
                selected_key |-> RowKeyAt(rows, cursor),
                prev_row_idx |-> cursor,
                before |-> rows,
                out |-> NoOutput,
                active |-> loop.active + 1]
    /\ rows' = <<>>
    /\ cursor' = 0

\* An origin is who called load_containers: on_mount, the timer, a key's
\* action, or call_from_thread for worker thread origin[2].
\* What the handler that called load_containers does after it returned.  The
\* notify() of action_toggle_filter and action_refresh changes no state of the
\* program and is left out.
AfterLoad(origin) ==
    /\ mounted' = (mounted \/ origin[1] = "mount")
    /\ workers' = IF origin[1] = "thread"
                  THEN [workers EXCEPT ![origin[2]].pc = "notify"]
                  ELSE workers

\* Lines 130-176: get_containers() returns or raises; rebuild the rows,
\* restore the cursor, update the status bar, then return to the handler.
LoadReturn ==
    /\ ~crashed
    /\ loop.pc = "fetch"
    /\ \E out \in PsOutputs(world) :
         LET got == GetContainers(out)
             built == Build(got.grouped, show_all)
             idx == RestoreIdx(loop.selected_key, loop.prev_row_idx,
                               built.row_names, built.total)
         IN IF got.raised
            THEN /\ crashed' = TRUE
                 /\ loop' = [loop EXCEPT !.pc = "raised", !.out = out]
                 /\ UNCHANGED <<rows, cursor, status_bar, restore_idx, snapshot,
                                mounted, workers>>
            ELSE /\ rows' = built.rows
                 /\ cursor' = IF idx # NoIdx THEN MoveCursor(idx, Len(built.rows)) ELSE cursor
                 /\ status_bar' = [running |-> built.running, total |-> built.total,
                                   filter |-> FilterLabel(show_all)]
                 /\ restore_idx' = idx
                 /\ snapshot' = got.containers
                 /\ loop' = [loop EXCEPT !.pc = "idle", !.origin = <<None, 0>>,
                                          !.before = <<>>, !.active = loop.active - 1]
                 /\ AfterLoad(loop.origin)
                 /\ UNCHANGED crashed
    /\ UNCHANGED <<call, world, show_all, last_key, events>>

\* LoopFree for handlers that could run while another one is blocked.
LoopFreeWhileBlocked == ~crashed

\* A handler runs on the event loop's thread, so only when no other handler
\* is running: load_containers is a plain def that returns before the loop
\* takes the next timer tick, key or call_from_thread callback.
LoopFree == ~crashed /\ loop.pc = "idle"

\* on_mount: the first load_containers, then set_interval(5, load_containers)
OnMount ==
    /\ LoopFree /\ ~mounted
    /\ LoadBegin(<<"mount", 0>>)
    /\ UNCHANGED <<call, world, status_bar, show_all, last_key, mounted, crashed,
                   restore_idx, snapshot, workers, events>>

\* The interval timer calls load_containers.
TimerTick ==
    /\ LoopFree /\ mounted
    /\ LoadBegin(<<"timer", 0>>)
    /\ UNCHANGED <<call, world, status_bar, show_all, last_key, mounted, crashed,
                   restore_idx, snapshot, workers, events>>

\* self._last_key = event.key.  The code only ever asks whether it is "g", so
\* every other key is kept as "".
LastKey(key) == IF key = "g" THEN "g" ELSE ""

\* A key event reaches the app: on_key, then the key's binding.
KeyEvent(key) ==
    /\ LoopFree /\ mounted
    /\ events < MaxEvents
    /\ events' = events + 1
    /\ last_key' = IF key = "g" /\ last_key = "g" THEN "" ELSE LastKey(key)

\* h: action_toggle_filter
ToggleFilter ==
    /\ KeyEvent("h")
    /\ show_all' = ~show_all
    /\ LoadBegin(<<"toggle", 0>>)
    /\ UNCHANGED <<call, world, status_bar, mounted, crashed, restore_idx, snapshot,
                   workers>>

\* f5: action_refresh
Refresh ==
    /\ KeyEvent("f5")
    /\ LoadBegin(<<"refresh", 0>>)
    /\ UNCHANGED <<call, world, status_bar, show_all, mounted, crashed, restore_idx,
                   snapshot, workers>>

Navigate(key, row) ==
    /\ KeyEvent(key)
    /\ cursor' = row
    /\ UNCHANGED <<call, world, rows, status_bar, show_all, mounted, crashed, loop,
                   restore_idx, snapshot, workers>>

\* j: DataTable.action_cursor_down
CursorDown == Navigate("j", MoveCursor(cursor + 1, Len(rows)))

\* k: DataTable.action_cursor_up
CursorUp == Navigate("k", MoveCursor(cursor - 1, Len(rows)))

\* G: action_go_bottom
GoBottom == Navigate("G", MoveCursor(Len(rows) - 1, Len(rows)))

\* g: on_key; the second g of "gg" moves the cursor to row 0
KeyG == Navigate("g", IF last_key = "g" THEN MoveCursor(0, Len(rows)) ELSE cursor)

\* ----------------------------------------------------------- worker threads
FreeWorker(w) == workers[w].pc = "none" /\ \A v \in Workers : v < w => workers[v].pc # "none"

\* r, s, c: @work(thread=True) starts a thread for action_<verb>;
\* R, S, C: one for action_<verb>_project.
KeyOf(kind, verb) ==
    CASE kind = "single" /\ verb = "restart" -> "r"
      [] kind = "single" /\ verb = "start" -> "s"
      [] kind = "single" /\ verb = "stop" -> "c"
      [] kind = "project" /\ verb = "restart" -> "R"
      [] kind = "project" /\ verb = "start" -> "S"
      [] OTHER -> "C"

StartWorker(kind, verb) ==
    /\ KeyEvent(KeyOf(kind, verb))
    /\ \E w \in Workers :
         /\ FreeWorker(w)
         /\ workers' = [workers EXCEPT ![w] = [NoWorker EXCEPT !.pc = "start",
                                                  !.kind = kind, !.verb = verb,
                                                  !.at_key = IF kind = "single"
                                                             THEN RowKeyAt(rows, cursor)
                                                             ELSE None]]
    /\ UNCHANGED <<call, world, table, status_bar, show_all, mounted, crashed, loop,
                   restore_idx, snapshot>>

ActionKey == \E verb \in Verbs : StartWorker("single", verb)

ProjectActionKey == \E verb \in Verbs : StartWorker("project", verb)

\* SingleSelected without the `if name:` test.
SingleSelectedUnchecked(wr, name) ==
    [wr EXCEPT !.pc = "cmd", !.name = name, !.inflight = {name},
               !.notes = Append(wr.notes, NoteBegin(wr.verb, name))]

\* The thread of action_<verb> up to docker_cmd: name =
\* get_selected_container(); if name: notify, then the command is running.
SingleSelected(wr, name) ==
    IF Truthy(name)
    THEN [wr EXCEPT !.pc = "cmd", !.name = name, !.inflight = {name},
                    !.notes = Append(wr.notes, NoteBegin(wr.verb, name))]
    ELSE [wr EXCEPT !.pc = "done"]

WSelect(w) ==
    /\ ~crashed
    /\ workers[w].pc = "start" /\ workers[w].kind = "single"
    /\ workers' = [workers EXCEPT ![w] =
                      SingleSelected(workers[w], GetSelectedContainer(rows, cursor))]
    /\ UNCHANGED <<call, world, table, status_bar, show_all, last_key, mounted, crashed,
                   loop, restore_idx, snapshot, events>>

\* SingleCmdDone with the refresh skipped when the command failed.
SingleCmdDoneSkipsRefresh(wr, exit) ==
    [wr EXCEPT !.pc = IF exit # 0 THEN "notify" ELSE "posted", !.inflight = {},
               !.finished = wr.finished \cup {wr.name},
               !.failed = IF exit # 0 THEN wr.failed \cup {wr.name} ELSE wr.failed]

\* docker_cmd returned in the thread of a single-target action with exit
\* status `exit`, which docker_cmd drops; next is call_from_thread.
SingleCmdDone(wr, exit) ==
    [wr EXCEPT !.pc = "posted", !.inflight = {},
               !.finished = wr.finished \cup {wr.name},
               !.failed = IF exit # 0 THEN wr.failed \cup {wr.name} ELSE wr.failed]

WCmd(w) ==
    /\ ~crashed
    /\ workers[w].pc = "cmd"
    /\ \E exit \in ExitCodes(world, workers[w].name) :
         /\ world' = DockerRun(world, workers[w].verb, workers[w].name, exit)
         /\ workers' = [workers EXCEPT ![w] = SingleCmdDone(workers[w], exit)]
    /\ UNCHANGED <<call, table, status_bar, show_all, last_key, mounted, crashed, loop,
                   restore_idx, snapshot, events>>

\* The thread of action_<verb>_project up to the membership lookup:
\* project = get_selected_project(); if project: get_containers() is running.
ProjectSelected(wr, project) ==
    IF Truthy(project)
    THEN [wr EXCEPT !.pc = "lookup", !.project = project]
    ELSE [wr EXCEPT !.pc = "done"]

WSelectProject(w) ==
    /\ ~crashed
    /\ workers[w].pc = "start" /\ workers[w].kind = "project"
    /\ workers' = [workers EXCEPT ![w] =
                      ProjectSelected(workers[w], GetSelectedProject(rows, cursor))]
    /\ UNCHANGED <<call, world, table, status_bar, show_all, last_key, mounted, crashed,
                   loop, restore_idx, snapshot, events>>

Range(s) == {s[i] : i \in 1..Len(s)}

\* PoolSubmitted on the membership the last refresh displayed instead of the
\* one just fetched.
PoolSubmittedFromSnapshot(wr, containers) ==
    LET cached == NamesOf(SelectSeqBy(snapshot, wr.project))
    IN [wr EXCEPT !.pc = "pool", !.containers = cached, !.inflight = Range(cached),
                  !.notes = Append(wr.notes, NoteBulkBegin(wr.verb, wr.project, cached))]

\* get_containers_for_project returned: notify, then pool.map submits one
\* docker_cmd per member to the ThreadPoolExecutor.
PoolSubmitted(wr, containers) ==
    [wr EXCEPT !.pc = "pool", !.containers = containers, !.inflight = Range(containers),
               !.notes = Append(wr.notes, NoteBulkBegin(wr.verb, wr.project, containers))]

WLookup(w) ==
    /\ ~crashed
    /\ workers[w].pc = "lookup"
    /\ \E out \in PsOutputs(world) :
         LET got == GetContainers(out)
         IN IF got.raised
            THEN crashed' = TRUE /\ UNCHANGED workers
            ELSE /\ workers' = [workers EXCEPT ![w] =
                        PoolSubmitted(workers[w],
                                      ContainersForProject(got.grouped, workers[w].project))]
                 /\ UNCHANGED crashed
    /\ UNCHANGED <<call, world, table, status_bar, show_all, last_key, mounted, loop,
                   restore_idx, snapshot, events>>

\* One docker_cmd of the pool returned with exit status `exit`.
PoolCmdDone(wr, n, exit) ==
    [wr EXCEPT !.inflight = wr.inflight \ {n},
               !.finished = wr.finished \cup {n},
               !.failed = IF exit # 0 THEN wr.failed \cup {n} ELSE wr.failed]

WPoolCmd(w) ==
    /\ ~crashed
    /\ workers[w].pc = "pool"
    /\ \E n \in workers[w].inflight : \E exit \in ExitCodes(world, n) :
         /\ world' = DockerRun(world, workers[w].verb, n, exit)
         /\ workers' = [workers EXCEPT ![w] = PoolCmdDone(workers[w], n, exit)]
    /\ UNCHANGED <<call, table, status_bar, show_all, last_key, mounted, crashed, loop,
                   restore_idx, snapshot, events>>

\* PoolJoined with shutdown(wait=False): the block is left at once.
PoolJoinedNoWait(wr) == TRUE

\* The `with ThreadPoolExecutor()` block is left: shutdown(wait=True) returns
\* once no submitted command is running.
PoolJoined(wr) == wr.inflight = {}

WPoolJoin(w) ==
    /\ ~crashed
    /\ workers[w].pc = "pool"
    /\ PoolJoined(workers[w])
    /\ workers' = [workers EXCEPT ![w].pc = "posted"]
    /\ UNCHANGED <<call, world, table, status_bar, show_all, last_key, mounted, crashed,
                   loop, restore_idx, snapshot, events>>

\* self.app.call_from_thread(self.load_containers): the loop runs the call
\* while the thread waits for it.
RunCallback(w) ==
    /\ LoopFree /\ mounted
    /\ workers[w].pc = "posted"
    /\ LoadBegin(<<"thread", w>>)
    /\ workers' = [workers EXCEPT ![w].pc = "waiting",
                                  ![w].refreshes = workers[w].refreshes + 1]
    /\ UNCHANGED <<call, world, status_bar, show_all, last_key, mounted, crashed,
                   restore_idx, snapshot, events>>

\* The notification after call_from_thread returned.
Summary(wr) ==
    IF wr.kind = "single"
    THEN NoteDone(wr.verb, wr.name)
    ELSE NoteBulkDone(wr.verb, wr.project, wr.containers)

WNotify(w) ==
    /\ ~crashed
    /\ workers[w].pc = "notify"
    /\ workers' = [workers EXCEPT ![w].pc = "done",
                                  ![w].notes = Append(workers[w].notes, Summary(workers[w]))]
    /\ UNCHANGED <<call, world, table, status_bar, show_all, last_key, mounted, crashed,
                   loop, restore_idx, snapshot, events>>

\* ------------------------------------------- the process manager, from outside
Remove(cs, i) == SubSeq(cs, 1, i - 1) \o SubSeq(cs, i + 1, Len(cs))

EnvStep(w2) ==
    /\ events < MaxEvents
    /\ events' = events + 1
    /\ world' = w2
    /\ UNCHANGED <<call, table, status_bar, show_all, last_key, mounted, crashed, loop,
                   restore_idx, snapshot, workers>>

\* A running container exits by itself.
EnvExit ==
    \E i \in 1..Len(world) :
        /\ IsRunning(world[i].Status)
        /\ EnvStep([world EXCEPT ![i].Status = ExitedText])

\* A container is removed.
EnvRemove == \E i \in 1..Len(world) : EnvStep(Remove(world, i))

\* A container is created; `docker ps -a` lists the newest first.
EnvCreate ==
    \E n \in Names \ {world[i].Names : i \in 1..Len(world)} :
        EnvStep(<<Record(n, CreatedText)>> \o world)

Next ==
    \/ OnMount
    \/ TimerTick
    \/ LoadReturn
    \/ ToggleFilter
    \/ Refresh
    \/ CursorDown
    \/ CursorUp
    \/ GoBottom
    \/ KeyG
    \/ ActionKey
    \/ ProjectActionKey
    \/ \E w \in Workers : WSelect(w)
    \/ \E w \in Workers : WCmd(w)
    \/ \E w \in Workers : WSelectProject(w)
    \/ \E w \in Workers : WLookup(w)
    \/ \E w \in Workers : WPoolCmd(w)
    \/ \E w \in Workers : WPoolJoin(w)
    \/ \E w \in Workers : RunCallback(w)
    \/ \E w \in Workers : WNotify(w)
    \/ EnvExit
    \/ EnvRemove
    \/ EnvCreate

Spec == Init /\ [][Next]_vars

\* ------------------------------------------ functions taken by themselves
\* The application's variables, which a call taken by itself leaves alone.
app == <<world, rows, cursor, status_bar, show_all, last_key, mounted,
         crashed, loop, restore_idx, snapshot, workers, events>>

\* Status texts: every text made of three of these pieces.
StatusPieces ==
    {<<>>, <<"U">>, <<"p">>, <<"U", "p">>, <<"u", "p">>, <<" ">>,
     <<"E", "x", "i", "t">>, <<"e", "d">>, <<"e", "x", "i", "t", "e", "d">>,
     CreatedText}

StatusTexts == {a \o b \o c : a, b, c \in StatusPieces}

StatusInit ==
    /\ AppInit
    /\ call \in {[fn |-> "status", status |-> t, filter |-> f, done |-> FALSE,
                  display |-> <<>>, running |-> 0, shown |-> 0] :
                     t \in StatusTexts, f \in BOOLEAN}

\* One pass of load_containers' loop body on a record with status text
\* call.status, under filter call.filter.
ClassifyStatus ==
    /\ call.fn = "status" /\ ~call.done
    /\ LET c == [Names |-> "web", Status |-> call.status, Labels |-> <<>>]
           acc == BuildStep(EmptyBuild, ProjName(c), c, call.filter)
       IN call' = [call EXCEPT !.done = TRUE,
                               !.display = StatusDisplay(call.status),
                               !.running = acc.running,
                               !.shown = Len(acc.rows)]
    /\ UNCHANGED app

StatusNext == ClassifyStatus

StatusSpec == StatusInit /\ [][StatusNext]_vars


\* --------------------------------------------------------- parse_host_ports
DigitChars == <<"0", "1", "2", "3", "4", "5", "6", "7", "8", "9">>

IsDigit(ch) == \E d \in 1..Len(DigitChars) : DigitChars[d] = ch

DigitValue(ch) == (CHOOSE d \in 1..Len(DigitChars) : DigitChars[d] = ch) - 1

\* int(digits)
RECURSIVE IntValue(_)
IntValue(ds) ==
    IF ds = <<>> THEN 0
    ELSE IntValue(SubSeq(ds, 1, Len(ds) - 1)) * 10 + DigitValue(ds[Len(ds)])

\* \d+ from position i: the position after the longest run of digits.
RECURSIVE DigitsEnd(_, _)
DigitsEnd(s, i) == IF i <= Len(s) /\ IsDigit(s[i]) THEN DigitsEnd(s, i + 1) ELSE i

HostPrefix == <<"0", ".", "0", ".", "0", ".", "0", ":">>
Arrow == <<"-", ">">>

\* re.findall(r"0\.0\.0\.0:(\d+)->", s) from position i: the groups of the
\* matches, left to right, each search starting where the last match ended.
RECURSIVE FindAll(_, _)
FindAll(s, i) ==
    IF i > Len(s) THEN <<>>
    ELSE IF PrefixAt(HostPrefix, s, i)
         THEN LET b == i + Len(HostPrefix)
                  e == DigitsEnd(s, b)
              IN IF e > b /\ PrefixAt(Arrow, s, e)
                 THEN <<SubSeq(s, b, e - 1)>> \o FindAll(s, e + Len(Arrow))
                 ELSE FindAll(s, i + 1)
         ELSE FindAll(s, i + 1)

\* sorted(S): digit strings in string order
RECURSIVE SortedByText(_)
SortedByText(S) ==
    IF S = {} THEN <<>>
    ELSE LET code(x) == [k \in 1..Len(x) |-> DigitValue(x[k])]
             m == CHOOSE x \in S : \A y \in S \ {x} : SeqLess(code(x), code(y))
         IN <<m>> \o SortedByText(S \ {m})

\* sorted(S, key=int).  Two strings of one value (leading zeros) are not
\* among the ports the process manager prints.
RECURSIVE SortedByInt(_)
SortedByInt(S) ==
    IF S = {} THEN <<>>
    ELSE LET m == CHOOSE x \in S : \A y \in S \ {x} : IntValue(x) <= IntValue(y)
         IN <<m>> \o SortedByInt(S \ {m})

\* sep.join(parts)
RECURSIVE Join(_, _)
Join(parts, sep) ==
    IF parts = <<>> THEN <<>>
    ELSE IF Len(parts) = 1 THEN Head(parts)
    ELSE Head(parts) \o sep \o Join(Tail(parts), sep)

CommaSpace == <<",", " ">>
Dash == <<"-">>

ParseHostPorts(ports_str) ==
    IF ports_str = <<>> THEN Dash
    ELSE LET matches == FindAll(ports_str, 1)
         IN IF matches # <<>>
            THEN Join(SortedByInt(Range(matches)), CommaSpace)
            ELSE Dash

\* The Ports text of a record as the process manager prints it: mappings
\* joined by ", ", each published on every IPv4 address, on every IPv6
\* address or on the loopback address, or an exposed port that is not
\* published.
MaxMappings == 3

HostPorts == {<<"4", "4", "3">>, <<"8", "0", "8", "0">>, <<"9", "0", "0", "0">>,
              <<"1", "0", "0", "0", "0">>}

Mappings ==
    {[kind |-> "v4", host |-> h] : h \in HostPorts}
        \cup {[kind |-> "v6", host |-> <<"4", "4", "3">>],
              [kind |-> "loopback", host |-> <<"1", "0", "0", "0", "0">>],
              [kind |-> "exposed", host |-> <<>>]}

ContainerPort == <<"8", "0", "/", "t", "c", "p">>

MappingText(m) ==
    CASE m.kind = "v4" -> HostPrefix \o m.host \o Arrow \o ContainerPort
      [] m.kind = "v6" -> <<"[", ":", ":", "]", ":">> \o m.host \o Arrow \o ContainerPort
      [] m.kind = "loopback" ->
            <<"1", "2", "7", ".", "0", ".", "0", ".", "1", ":">> \o m.host
                \o Arrow \o ContainerPort
      [] OTHER -> ContainerPort

PortsText(ms) == Join([k \in 1..Len(ms) |-> MappingText(ms[k])], CommaSpace)

PortsInit ==
    /\ AppInit
    /\ call \in {[fn |-> "ports", mappings |-> ms, ports_str |-> PortsText(ms),
                  done |-> FALSE, out |-> <<>>] :
                     ms \in UNION {[1..n -> Mappings] : n \in 0..MaxMappings}}

ParsePorts ==
    /\ call.fn = "ports" /\ ~call.done
    /\ call' = [call EXCEPT !.done = TRUE, !.out = ParseHostPorts(call.ports_str)]
    /\ UNCHANGED app

PortsNext == ParsePorts

PortsSpec == PortsInit /\ [][PortsNext]_vars


\* ------------------------------------------- the grouping of get_containers
MaxRecords == 3

\* The Labels of a record: none, an empty project label, a project label,
\* one after another label, and two project labels.
LabelLists ==
    {<<>>,
     <<Label(ProjectLabel, "")>>,
     <<Label(ProjectLabel, "app")>>,
     <<Label("com.docker.compose.service", "web"), Label(ProjectLabel, "api")>>,
     <<Label(ProjectLabel, "app"), Label(ProjectLabel, "api")>>,
     <<Label(ProjectLabel, ""), Label(ProjectLabel, "api")>>}

\* The parsed lines of one listing: records of different names.
RecordLists ==
    {cs \in UNION {[1..n -> [Names : Names, Status : {UpText}, Labels : LabelLists]] :
                       n \in 0..MaxRecords} :
        \A i, j \in 1..Len(cs) : i # j => cs[i].Names # cs[j].Names}

GroupInit ==
    /\ AppInit
    /\ call \in {[fn |-> "group", records |-> cs, done |-> FALSE, grouped |-> <<>>,
                  flat |-> <<>>, regrouped |-> <<>>] : cs \in RecordLists}

\* The grouping loop of get_containers on call.records, and again on the
\* groups' members listed group after group in some order of the groups.
Regroup ==
    /\ call.fn = "group" /\ ~call.done
    /\ LET grouped == Grouped(call.records)
           keys == DOMAIN grouped
       IN \E order \in {q \in [1..Cardinality(keys) -> keys] : Range(q) = keys} :
              LET items == LoopOrder(order, grouped)
                  flat == [k \in 1..Len(items) |-> items[k].c]
              IN call' = [call EXCEPT !.done = TRUE, !.grouped = grouped,
                                      !.flat = flat, !.regrouped = Grouped(flat)]
    /\ UNCHANGED app

GroupNext == Regroup

GroupSpec == GroupInit /\ [][GroupNext]_vars


\* ---------------------------------------------------------------- properties
RowNames(rs) == [i \in 1..Len(rs) |-> rs[i].key]

\* A load_containers call returns in this step.
Refreshed == loop.pc = "fetch" /\ loop'.pc = "idle"

\* The container selected before the last (or the returning) refresh is a row
\* of rs.
SelectionIn(rs) == loop.selected_key # None /\ InSeq(loop.selected_key, RowNames(rs))

\* A load_containers call has returned and none is running.
Shown == mounted /\ loop.pc = "idle"

\* The commands an action thread has to run.
Targets(wr) == IF wr.kind = "single" THEN {wr.name} ELSE Range(wr.containers)

Dispatched(wr) == wr.pc \in {"cmd", "pool", "posted", "waiting", "notify", "done"} /\ wr.notes # <<>>

\* C1: an action that was dispatched triggers one refresh, whatever its
\* commands' exit statuses: never two, none before every command has
\* returned, and one by the time the thread goes on to its last notification.
RefreshOnceAfterDispatch ==
    \A w \in Workers :
        LET wr == workers[w]
        IN /\ wr.refreshes <= 1
           /\ wr.refreshes = 1 => Dispatched(wr) /\ wr.inflight = {} /\ wr.finished = Targets(wr)
           /\ Dispatched(wr) /\ wr.pc \in {"waiting", "notify", "done"} => wr.refreshes = 1

\* A project action with a failed and a succeeded command has finished after
\* its one refresh.
RefreshAfterFailureReached ==
    \E w \in Workers :
        /\ workers[w].pc = "done" /\ workers[w].kind = "project"
        /\ workers[w].failed # {} /\ workers[w].failed # Targets(workers[w])
        /\ workers[w].refreshes = 1

\* C2: when the fetch of a refresh fails, the rows shown afterwards are the
\* rows shown before it.
FailedFetchKeepsRows == loop.pc = "raised" => rows = loop.before

\* C3: a refresh puts the cursor on the row of the container that was
\* selected before it, when the new rows have that container.
CursorFollowsSelection ==
    [][Refreshed /\ SelectionIn(rows')
         => /\ restore_idx' = IndexOf(RowNames(rows'), loop.selected_key)
            /\ cursor' = restore_idx'
            /\ rows'[cursor' + 1].key = loop.selected_key]_vars

\* The selected container was found at another index than it had.
SelectionMovedReached ==
    /\ Shown /\ SelectionIn(rows)
    /\ rows[cursor + 1].key = loop.selected_key
    /\ cursor # loop.prev_row_idx
    /\ restore_idx = cursor

\* C4: after a refresh whose new rows have neither the container selected
\* before nor a row at the previous index, no index was restored.
NoRestoreOutOfBounds ==
    Shown /\ ~SelectionIn(rows) /\ loop.prev_row_idx >= Len(rows) => restore_idx = NoIdx

\* C5: a refresh whose new rows do not have the container selected before
\* (or none was) but have a row at the previous index puts the cursor on
\* that index.
CursorKeepsPosition ==
    [][Refreshed /\ ~SelectionIn(rows') /\ loop.prev_row_idx < Len(rows')
         => restore_idx' = loop.prev_row_idx /\ cursor' = loop.prev_row_idx]_vars

\* The selected container is gone and the cursor stayed at its index, not 0.
PositionKeptReached ==
    /\ Shown /\ loop.selected_key # None /\ ~SelectionIn(rows)
    /\ loop.prev_row_idx > 0 /\ loop.prev_row_idx < Len(rows)
    /\ restore_idx = loop.prev_row_idx /\ cursor = restore_idx

RunningIn(cs) == {i \in 1..Len(cs) : IsRunning(cs[i].Status)}

\* C6: the status bar's running count is the number of running containers of
\* the whole snapshot, in either filter mode.
RunningCountsWholeSnapshot ==
    status_bar.running = Cardinality(RunningIn(snapshot))

\* The filter hides a container while another one runs.
RunningCountFilteredReached ==
    /\ Shown /\ ~show_all /\ status_bar.filter = "running only"
    /\ status_bar.running > 0 /\ Len(snapshot) > status_bar.running

\* C7: under "running only" the rows are the running containers of the
\* snapshot, under "all" they are all its containers; total counts the whole
\* snapshot either way.
RowsMatchFilter ==
    Shown =>
        LET shown == IF show_all THEN 1..Len(snapshot) ELSE RunningIn(snapshot)
        IN /\ {rows[i].key : i \in 1..Len(rows)} = {snapshot[i].Names : i \in shown}
           /\ Len(rows) = Cardinality(shown)
           /\ status_bar.total = Len(snapshot)

\* Rows are hidden and still counted in total.
HiddenRowsCountedReached ==
    /\ Shown /\ ~show_all
    /\ Len(rows) > 0 /\ status_bar.total > Len(rows)

\* C8: a project action's refresh and its summary come only when every
\* member's command has returned.
BulkJoinsBeforeRefresh ==
    \A w \in Workers :
        LET wr == workers[w]
        IN wr.kind = "project" /\ (wr.refreshes > 0 \/ wr.pc \in {"posted", "waiting", "notify", "done"})
            => wr.inflight = {} /\ wr.finished = Range(wr.containers)

\* A project action over two members has emitted its summary.
BulkJoinedReached ==
    \E w \in Workers :
        /\ workers[w].kind = "project" /\ workers[w].pc = "done"
        /\ Len(workers[w].containers) >= 2
        /\ Len(workers[w].notes) = 2

\* C9: the summary of a project action with failed and succeeded commands is
\* a warning, and not the message of a run without failures.
PartialFailureReported ==
    \A w \in Workers :
        LET wr == workers[w]
        IN wr.kind = "project" /\ wr.pc = "done" /\ wr.notes # <<>>
           /\ wr.failed # {} /\ wr.failed # Range(wr.containers)
            => /\ wr.notes[Len(wr.notes)].severity = "warning"
               /\ wr.notes[Len(wr.notes)] # NoteBulkDone(wr.verb, wr.project, wr.containers)

\* C10: a single-target action whose command exited non-zero does not end
\* with the notification of a success.
SingleFailureReported ==
    \A w \in Workers :
        LET wr == workers[w]
        IN wr.kind = "single" /\ wr.pc = "done" /\ wr.notes # <<>> /\ wr.name \in wr.failed
            => /\ wr.notes[Len(wr.notes)].severity # "information"
               /\ wr.notes[Len(wr.notes)] # NoteDone(wr.verb, wr.name)

\* C11: a line that is no JSON does not abort the fetch: the fetch of a
\* refresh fails only when the list call itself could not be run.
FetchSkipsMalformedLines == loop.pc = "raised" => loop.out.raised

\* C12: at most one refresh is in progress at any time: no handler starts a
\* load_containers (timer tick, key action or thread callback) while another
\* call has not returned.
RefreshesNeverOverlap ==
    /\ loop.active <= 1
    /\ loop.active = 1 <=> loop.pc \in {"fetch", "raised"}

\* The timer's refresh is outstanding while a thread's callback is waiting
\* for the loop.
RefreshPendingReached ==
    /\ loop.pc = "fetch" /\ loop.origin[1] = "timer" /\ loop.active = 1
    /\ \E w \in Workers : workers[w].pc = "posted"

\* A docker process started by the application has not returned.
ExternalCallInFlight ==
    \/ loop.pc = "fetch"
    \/ \E w \in Workers : workers[w].pc \in {"cmd", "lookup"}
    \/ \E w \in Workers : workers[w].pc = "pool" /\ workers[w].inflight # {}

\* C13: the event loop runs no external call itself: whenever one is in
\* flight, the loop is free to take the next tick or key.
EventLoopNeverBlocks == ExternalCallInFlight => loop.pc = "idle"

\* The names of the containers of `project` among the records cs, in order.
MembersIn(cs, project) ==
    LET ms == SelectSeq(cs, LAMBDA c : ProjName(c) = project)
    IN [i \in 1..Len(ms) |-> ms[i].Names]

\* C14: a bulk action commands exactly the members the selected project has
\* in the process manager when the thread looks them up (none when the list
\* call printed nothing), not the members of the displayed rows, and runs one
\* command per member: a member's command returns once, and the pool is left
\* when every member's command has returned.
BulkUsesFreshMembership ==
    [][\A w \in Workers :
         LET wr == workers[w]
             wn == workers'[w]
         IN /\ wr.pc = "lookup" /\ wn.pc = "pool" =>
                 /\ wn.containers \in {MembersIn(world, wr.project), <<>>}
                 /\ Cardinality(Range(wn.containers)) = Len(wn.containers)
                 /\ wn.inflight = Range(wn.containers)
                 /\ wn.finished = {}
            /\ wr.pc = "pool" /\ wn.finished # wr.finished =>
                 \E n \in wr.inflight \ wr.finished :
                     /\ wn.finished = wr.finished \cup {n}
                     /\ wn.inflight = wr.inflight \ {n}
            /\ wr.pc = "pool" /\ wn.pc = "posted" =>
                 wn.finished = Range(wr.containers)
      ]_vars

\* A bulk action has commanded db, which joined the project after the last
\* refresh and is in no displayed row.
FreshMemberCommandedReached ==
    \E w \in Workers :
        /\ workers[w].kind = "project" /\ workers[w].pc = "posted"
        /\ workers[w].finished = {"db", "web"}
        /\ MembersIn(snapshot, workers[w].project) = <<"web">>
        /\ \A i \in 1..Len(rows) : rows[i].key # "db"

\* The position of the record named n in the records cs.
PositionIn(cs, n) == CHOOSE k \in 1..Len(cs) : cs[k].Names = n

\* The project a displayed row is listed under.
RowProject(r) == StripMarkup(r.cells[1])

\* C15: the displayed rows are grouped by project, the projects in ascending
\* string order, and the rows of one project are in the order their
\* containers had in the fetched snapshot, in both filter modes.
RowsGroupedInOrder ==
    Shown =>
        \A i, j \in 1..Len(rows) :
            i < j =>
                /\ ~StrLess(RowProject(rows[j]), RowProject(rows[i]))
                /\ RowProject(rows[i]) = ProjName(snapshot[PositionIn(snapshot, rows[i].key)])
                /\ RowProject(rows[i]) = RowProject(rows[j]) =>
                       PositionIn(snapshot, rows[i].key) < PositionIn(snapshot, rows[j].key)

\* The snapshot listed db, web, job; the rows are job, then db and web of
\* project app in the snapshot's order.
RowsRegroupedReached ==
    /\ Shown
    /\ Len(rows) = 3
    /\ rows[1].key = "job" /\ rows[2].key = "db" /\ rows[3].key = "web"
    /\ Len(snapshot) = 3 /\ snapshot[1].Names = "db" /\ snapshot[2].Names = "web"

\* C19: a single-target action that was started on a highlighted row commands
\* the container of that row, whatever the event loop does before the thread
\* reads the selection.
SingleCommandsHighlighted ==
    \A w \in Workers :
        /\ workers[w].kind = "single"
        /\ workers[w].pc \notin {"none", "start"}
        /\ workers[w].at_key # None
        => workers[w].name = workers[w].at_key

\* What an action thread at its first step reads as the selection.
SelectionRead(wr) ==
    IF wr.kind = "single" THEN GetSelectedContainer(rows, cursor)
    ELSE GetSelectedProject(rows, cursor)

\* C20: an action thread that finds no row selected ends at once: it runs no
\* command, asks for no refresh and notifies nothing, the rows, the cursor,
\* the filter and the status bar stay as they are, and the ended thread does
\* nothing later.
NoSelectionNoEffect ==
    [][\A w \in Workers :
         LET wr == workers[w]
             wn == workers'[w]
         IN /\ wr.pc = "start" /\ wn # wr /\ ~Truthy(SelectionRead(wr)) =>
                 /\ wn.pc = "done"
                 /\ wn.notes = <<>> /\ wn.refreshes = 0
                 /\ wn.inflight = {} /\ wn.finished = {}
                 /\ UNCHANGED <<world, rows, cursor, show_all, status_bar, loop>>
            /\ wr.pc = "done" => wn = wr
      ]_vars

\* A single-target action has ended without effect on a view that was empty
\* when the key was pressed and still is, although containers exist.
EmptyViewActionReached ==
    \E w \in Workers :
        /\ workers[w].kind = "single"
        /\ workers[w].pc = "done" /\ workers[w].notes = <<>>
        /\ workers[w].at_key = None
        /\ Shown /\ rows = <<>> /\ snapshot # <<>>

\* The text s has the text sub somewhere in it.
HasText(sub, s) ==
    \E i \in 1..(Len(s) - Len(sub) + 1) : SubSeq(s, i, i + Len(sub) - 1) = sub

\* C16: every status text gets exactly one class: running (green) when it
\* has "Up" in it, also when it has "Exited" too; otherwise exited (red)
\* when it has "Exited"; otherwise other (yellow), the empty text included.
\* The record counts as running exactly when it is classified running.
StatusClassifiedInOrder ==
    call.fn = "status" /\ call.done =>
        LET up == HasText(<<"U", "p">>, call.status)
            exited == HasText(<<"E", "x", "i", "t", "e", "d">>, call.status)
        IN /\ call.display[1] = (IF up THEN "[green]"
                                 ELSE IF exited THEN "[red]" ELSE "[yellow]")
           /\ call.display[2] = call.status
           /\ call.running = (IF up THEN 1 ELSE 0)

\* A text with "Exited" before "Up" was classified running.
ExitedAndUpReached ==
    /\ call.fn = "status" /\ call.done
    /\ call.status = <<"E", "x", "i", "t", "e", "d", "U", "p">>
    /\ call.display[1] = "[green]" /\ call.running = 1

\* The number a host port stands for.
HostNumber(h) ==
    CASE h = <<"4", "4", "3">> -> 443
      [] h = <<"8", "0", "8", "0">> -> 8080
      [] h = <<"9", "0", "0", "0">> -> 9000
      [] OTHER -> 10000

\* C17: the port summary lists the host ports of the mappings published on
\* 0.0.0.0, each once, in ascending order of their numbers, joined by ", ";
\* it is "-" when the text is empty or has no such mapping.
PortSummaryDistinctAscending ==
    call.fn = "ports" /\ call.done =>
        LET H == {call.mappings[k].host :
                      k \in {k \in 1..Len(call.mappings) : call.mappings[k].kind = "v4"}}
        IN IF H = {} THEN call.out = Dash
           ELSE \E q \in [1..Cardinality(H) -> H] :
                    /\ Range(q) = H
                    /\ \A i, j \in 1..Len(q) : i < j => HostNumber(q[i]) < HostNumber(q[j])
                    /\ call.out = Join(q, CommaSpace)

\* 10000, 9000 and 9000 again were summarised as "9000, 10000".
PortsReorderedReached ==
    /\ call.fn = "ports" /\ call.done
    /\ Len(call.mappings) = 3
    /\ call.mappings[1] = [kind |-> "v4", host |-> <<"1", "0", "0", "0", "0">>]
    /\ call.mappings[2] = [kind |-> "v4", host |-> <<"9", "0", "0", "0">>]
    /\ call.mappings[3] = call.mappings[2]
    /\ call.out = <<"9", "0", "0", "0">> \o CommaSpace \o <<"1", "0", "0", "0", "0">>

\* The record has no project label, or its first one is empty.
NoProject(c) ==
    LET at == {k \in 1..Len(c.Labels) : c.Labels[k].k = ProjectLabel}
    IN at = {} \/ c.Labels[CHOOSE k \in at : \A m \in at : k <= m].v = ""

\* C18: grouping the members of the groups, listed group after group, gives
\* the same groups with the same members in the same order; and a record
\* with no project label or an empty one is in the group "(standalone)".
GroupingIdempotent ==
    call.fn = "group" /\ call.done =>
        /\ call.regrouped = call.grouped
        /\ \A k \in 1..Len(call.records) :
               NoProject(call.records[k]) =>
                   /\ "(standalone)" \in DOMAIN call.grouped
                   /\ InSeq(call.records[k], call.grouped["(standalone)"])

\* web and db of project app were listed before job, which has no label and
\* was between them in the listing.
RegroupedReached ==
    /\ call.fn = "group" /\ call.done
    /\ Len(call.records) = 3
    /\ call.records[2].Names = "job" /\ call.records[2].Labels = <<>>
    /\ DOMAIN call.grouped = {"(standalone)", "app"}
    /\ Len(call.flat) = 3
    /\ call.flat[1].Names = "web" /\ call.flat[2].Names = "db" /\ call.flat[3].Names = "job"
    /\ call.regrouped = call.grouped

====
